---------------------------- MODULE Spec2Model ----------------------------
(***************************************************************************)
(* A model of migrate.py: two catalogues (db1, db2) are read into lists of *)
(* Product, every Product of db1 is compared with every Product of db2     *)
(* through Product.__eq__ (a fuzzy comparison of the descriptions, cached  *)
(* by functools.lru_cache), and the rows (description of db1, price of     *)
(* db2) are written to an output database used as a context manager.       *)
(*                                                                         *)
(* Text is modelled character by character: a Python str is a sequence of  *)
(* characters, a character being a one-letter string for printable ASCII   *)
(* and "U+XXXX" for the other code points the catalogues use.              *)
(***************************************************************************)
EXTENDS Integers, Sequences, FiniteSets, TLC

(***************************************************************************)
(* Characters.                                                             *)
(***************************************************************************)

\* Printable ASCII in code point order: Ascii[n] is chr(31 + n) (the grave
\* accent, which a string of this language cannot hold, by its code point).
Ascii ==
    << " ", "!", "\"", "#", "$", "%", "&", "'", "(", ")", "*", "+", ",", "-",
       ".", "/", "0", "1", "2", "3", "4", "5", "6", "7", "8", "9", ":", ";",
       "<", "=", ">", "?", "@", "A", "B", "C", "D", "E", "F", "G", "H", "I",
       "J", "K", "L", "M", "N", "O", "P", "Q", "R", "S", "T", "U", "V", "W",
       "X", "Y", "Z", "[", "\\", "]", "^", "_", "U+0060", "a", "b", "c", "d", "e",
       "f", "g", "h", "i", "j", "k", "l", "m", "n", "o", "p", "q", "r", "s",
       "t", "u", "v", "w", "x", "y", "z", "{", "|", "}", "~" >>

AsciiChars == { Ascii[n] : n \in 1..Len(Ascii) }

\* ord(c) of a printable ASCII character.
Ord == [ c \in AsciiChars |-> 31 + (CHOOSE n \in 1..Len(Ascii) : Ascii[n] = c) ]

IsAscii(c) == c \in AsciiChars

IsUpper(c) == IsAscii(c) /\ Ord[c] >= 65 /\ Ord[c] <= 90

\* [A-Za-z0-9_]: what the regular expression \W does not match in ASCII text.
IsWord(c) ==
    /\ IsAscii(c)
    /\ \/ Ord[c] >= 48 /\ Ord[c] <= 57
       \/ Ord[c] >= 65 /\ Ord[c] <= 90
       \/ Ord[c] >= 97 /\ Ord[c] <= 122
       \/ c = "_"

\* The precomposed letters of the catalogues: upper case, lower case, and the
\* canonical decomposition (base letter, combining mark).
Latin1 ==
    { [ upper |-> "U+00D4", lower |-> "U+00F4", base |-> "o", mark |-> "U+0302" ],
      [ upper |-> "U+00C3", lower |-> "U+00E3", base |-> "a", mark |-> "U+0303" ],
      [ upper |-> "U+00C2", lower |-> "U+00E2", base |-> "a", mark |-> "U+0302" ] }

\* str.lower() on one character.
LowerChar(c) ==
    IF IsUpper(c) THEN Ascii[Ord[c] + 32 - 31]
    ELSE IF \E l \in Latin1 : l.upper = c
         THEN (CHOOSE l \in Latin1 : l.upper = c).lower
         ELSE c

\* str.lower()
lower(s) == [ n \in 1..Len(s) |-> LowerChar(s[n]) ]

\* unicodedata.normalize('NFKD', .) on one character: a precomposed letter
\* becomes its base letter followed by the combining mark.
DecomposeChar(c) ==
    IF \E l \in Latin1 : c \in { l.upper, l.lower }
    THEN LET l == CHOOSE l \in Latin1 : c \in { l.upper, l.lower }
         IN  << (IF c = l.upper THEN Ascii[Ord[l.base] - 32 - 31] ELSE l.base),
                l.mark >>
    ELSE << c >>

RECURSIVE NFKD(_)
NFKD(s) == IF s = << >> THEN << >> ELSE DecomposeChar(Head(s)) \o NFKD(Tail(s))

\* str.encode('ascii', 'ignore'): the characters outside ASCII are dropped.
EncodeAsciiIgnore(s) == SelectSeq(s, IsAscii)

\* get_normalize_description: the bytes of the decomposed description.
get_normalize_description(description) == EncodeAsciiIgnore(NFKD(description))


(***************************************************************************)
(* fuzz.token_sort_ratio, as calc_description_equivalence_ratio calls it:  *)
(* on the two bytes objects get_normalize_description returns.             *)
(***************************************************************************)

\* str(b) of a bytes object of printable ASCII: its repr, b'...'.  The
\* matcher is given bytes, not str, and takes str() of what is not a str.
BytesToStr(b) == << "b", "'" >> \o b \o << "'" >>

\* Every character \W matches becomes a space.
ReplaceNonWord(s) == [ n \in 1..Len(s) |-> IF IsWord(s[n]) THEN s[n] ELSE " " ]

RECURSIVE lstrip(_)
lstrip(s) == IF s # << >> /\ Head(s) = " " THEN lstrip(Tail(s)) ELSE s

RECURSIVE rstrip(_)
rstrip(s) ==
    IF s # << >> /\ s[Len(s)] = " " THEN rstrip(SubSeq(s, 1, Len(s) - 1)) ELSE s

strip(s) == rstrip(lstrip(s))

\* utils.full_process(s, force_ascii=True) of a bytes object.
full_process(b) == strip(lower(ReplaceNonWord(BytesToStr(b))))

\* The first whitespace-delimited token of s, s having no leading space.
RECURSIVE FirstToken(_)
FirstToken(s) ==
    IF s = << >> \/ Head(s) = " " THEN << >> ELSE << Head(s) >> \o FirstToken(Tail(s))

\* str.split(): the tokens between runs of whitespace.
RECURSIVE split(_)
split(s) ==
    LET t == lstrip(s)
    IN  IF t = << >> THEN << >>
        ELSE << FirstToken(t) >>
                 \o split(SubSeq(t, Len(FirstToken(t)) + 1, Len(t)))

\* a < b for two strings, as Python compares them: by code point, a proper
\* prefix before the longer string.
RECURSIVE StrLess(_, _)
StrLess(a, b) ==
    IF b = << >> THEN FALSE
    ELSE IF a = << >> THEN TRUE
    ELSE IF Head(a) # Head(b) THEN Ord[Head(a)] < Ord[Head(b)]
    ELSE StrLess(Tail(a), Tail(b))

\* t inserted into the sorted list of tokens ts.
RECURSIVE InsertSorted(_, _)
InsertSorted(t, ts) ==
    IF ts = << >> THEN << t >>
    ELSE IF StrLess(t, Head(ts)) THEN << t >> \o ts
    ELSE << Head(ts) >> \o InsertSorted(t, Tail(ts))

RECURSIVE sorted(_)
sorted(ts) == IF ts = << >> THEN << >> ELSE InsertSorted(Head(ts), sorted(Tail(ts)))

\* " ".join(tokens)
RECURSIVE join(_)
join(ts) ==
    IF ts = << >> THEN << >>
    ELSE IF Len(ts) = 1 THEN Head(ts)
    ELSE Head(ts) \o << " " >> \o join(Tail(ts))

\* fuzz._process_and_sort(s, force_ascii=True)
process_and_sort(b) == strip(join(sorted(split(full_process(b)))))

\* The matching blocks of a and b: a[x..x+k-1] = b[y..y+k-1], k >= 1.
MatchingBlocks(a, b) ==
    { t \in (1..Len(a)) \X (1..Len(b)) \X (1..Len(a)) :
        /\ t[1] + t[3] - 1 <= Len(a)
        /\ t[2] + t[3] - 1 <= Len(b)
        /\ SubSeq(a, t[1], t[1] + t[3] - 1) = SubSeq(b, t[2], t[2] + t[3] - 1) }

\* SequenceMatcher.find_longest_match: a longest block, of those the one that
\* starts earliest in a, of those the one that starts earliest in b.
find_longest_match(a, b) ==
    CHOOSE t \in MatchingBlocks(a, b) :
        \A u \in MatchingBlocks(a, b) :
            \/ t[3] > u[3]
            \/ t[3] = u[3] /\ t[1] < u[1]
            \/ t[3] = u[3] /\ t[1] = u[1] /\ t[2] <= u[2]

\* The number of matched characters SequenceMatcher.get_matching_blocks
\* finds: the longest block, then the same to its left and to its right.
RECURSIVE matches(_, _)
matches(a, b) ==
    IF MatchingBlocks(a, b) = { } THEN 0
    ELSE LET t == find_longest_match(a, b)
         IN  t[3] + matches(SubSeq(a, 1, t[1] - 1), SubSeq(b, 1, t[2] - 1))
                  + matches(SubSeq(a, t[1] + t[3], Len(a)),
                            SubSeq(b, t[2] + t[3], Len(b)))

\* utils.intr(100 * 2.0 * m / t): round() rounds a half to the even integer.
intr(m, t) ==
    LET q == (200 * m) \div t
        r == (200 * m) % t
    IN  IF 2 * r < t THEN q
        ELSE IF 2 * r > t THEN q + 1
        ELSE IF q % 2 = 0 THEN q ELSE q + 1

\* fuzz.ratio(s1, s2)
ratio(s1, s2) ==
    IF s1 = s2 THEN 100
    ELSE IF Len(s1) = 0 \/ Len(s2) = 0 THEN 0
    ELSE intr(matches(s1, s2), Len(s1) + Len(s2))

\* fuzz.token_sort_ratio(s1, s2)
token_sort_ratio(s1, s2) == ratio(process_and_sort(s1), process_and_sort(s2))


(***************************************************************************)
(* Values of a spreadsheet cell, and the rows and catalogues made of them. *)
(***************************************************************************)

\* A cell holds a str, an int or None.
Str(chars) == [ type |-> "str", chars |-> chars, num |-> 0 ]
Num(n) == [ type |-> "int", chars |-> << >>, num |-> n ]
None == [ type |-> "NoneType", chars |-> << >>, num |-> 0 ]

\* The rows a catalogue may hold are sequences of cells of any length.
\* A database that was never set on the Migrate object is NoDb.
NoDb == [ set |-> FALSE, rows |-> << >> ]
Db(rows) == [ set |-> TRUE, rows |-> rows ]

\* MIN_RATIO_EQUIVALENCE
MIN_RATIO_EQUIVALENCE == 90

\* maxsize of functools.lru_cache on calc_description_equivalence_ratio
MAXSIZE == 50

VARIABLES
    db1,                \* Migrate.db1
    db2,                \* Migrate.db2
    pc,                 \* where Migrate.run stands
    products_from_db1,  \* run's list of the Products read from db1
    products_from_db2,  \* run's list of the Products read from db2
    pos,                \* rows the generator being listed has consumed
    reads,              \* calls of db1.read() and of db2.read() in this run
    last_recently_migrated_products,
    index_db1,                  \* index of product_from_db1 in the outer loop
    index_db2,                  \* index of product_from_db2 in the inner loop
    output,             \* the output database: the calls made on it, its sheet
    error,              \* the exception run is propagating, "" for none
    cache,              \* lru_cache: entries, least recently used first
    hits,               \* lru_cache: cache_info().hits
    misses,             \* lru_cache: cache_info().misses
    runs,               \* number of calls of Migrate.run so far
    first               \* what the first call of run wrote and raised

vars == << db1, db2, pc, products_from_db1, products_from_db2, pos, reads,
           last_recently_migrated_products, index_db1, index_db2, output, error,
           cache, hits, misses, runs, first >>


(***************************************************************************)
(* The catalogues the model is run on.                                     *)
(***************************************************************************)

\* Longest catalogue drawn freely from Rows1 and Rows2.
MaxRows == 2

\* Rows of the catalogue that overflows the cache (db2 has one row less).
CatalogRows == 8

\* Calls of Migrate.run on the same Migrate object.
MaxRuns == 2

COLONIA_AVON == << "C", "O", "L", "U+00D4", "N", "I", "A", " ", "A", "V", "O", "N" >>
COLONIA_AVAS == << "C", "O", "L", "O", "N", "I", "A", " ", "A", "V", "A", "S" >>
colonia_avao == << "c", "o", "l", "o", "n", "i", "a", " ", "a", "v", "a", "o" >>
avon_colonia == << "a", "v", "o", "n", " ", "c", "o", "l", "U+00F4", "n", "i", "a" >>
not_a_price == << "n", "/", "a" >>

\* "k1", "k2", ...: the descriptions of the large catalogue.
RECURSIVE Digits(_)
Digits(n) ==
    IF n < 10 THEN << Ascii[17 + n] >> ELSE Digits(n \div 10) \o << Ascii[17 + (n % 10)] >>

Item(k) == << "k" >> \o Digits(k)

\* n records "k1" .. "kn", the price of the k-th being base + k.
Catalog(n, base) == [ k \in 1..n |-> << Str(Item(k)), Num(base + k) >> ]

Rows1 ==
    { << Str(COLONIA_AVON), Num(250) >>,
      << Str(COLONIA_AVAS), Str(not_a_price) >>,
      << Str(COLONIA_AVON) >>,
      << None, Num(1) >> }

Rows2 ==
    { << Str(colonia_avao), Num(100) >>,
      << Str(avon_colonia), Num(124) >>,
      << Str(colonia_avao), Str(not_a_price) >>,
      << >> }

SeqsUpTo(S, n) == UNION { [ 1..k -> S ] : k \in 0..n }

\* The large db1 ends with a second record of its last description.
Sources1 ==
    { Db(rows) : rows \in SeqsUpTo(Rows1, MaxRows) }
        \cup { Db(Catalog(CatalogRows, 0) \o << Catalog(CatalogRows, 0)[CatalogRows] >>) }

Sources2 ==
    { Db(rows) : rows \in SeqsUpTo(Rows2, MaxRows) }
        \cup { Db(Catalog(CatalogRows - 1, 100)) }

\* The descriptions of the catalogues, as Product.__eq__ passes them on.
LowerDescriptions ==
    { lower(row[1].chars) :
        row \in { r \in Rows1 \cup Rows2 : Len(r) > 0 /\ r[1].type = "str" } }
        \cup { lower(Item(k)) : k \in 1..CatalogRows }

(***************************************************************************)
(* calc_description_equivalence_ratio and its lru_cache.                   *)
(***************************************************************************)

\* The body of calc_description_equivalence_ratio, evaluated once for every
\* pair of descriptions of the catalogues.
Ratio ==
    [ desc1 \in LowerDescriptions, desc2 \in LowerDescriptions |->
        token_sort_ratio(get_normalize_description(desc1),
                         get_normalize_description(desc2)) ]

\* A cache keyed by the unordered pair of the arguments.
make_key_unordered(desc1, desc2) == { desc1, desc2 }

\* The key lru_cache makes of a call with positional arguments only: the
\* tuple of the arguments, in their order.
make_key(desc1, desc2) == << desc1, desc2 >>

CacheKeys(c) == { c[n].key : n \in 1..Len(c) }

CacheEntry(c, key) == c[CHOOSE n \in 1..Len(c) : c[n].key = key]

\* What a call of the cached function returns with the cache being c: the
\* stored result on a hit, the computed result on a miss.
calc_description_equivalence_ratio(c, desc1, desc2) ==
    IF make_key(desc1, desc2) \in CacheKeys(c)
    THEN CacheEntry(c, make_key(desc1, desc2)).result
    ELSE Ratio[desc1, desc2]

\* The cache after that call: a hit moves the entry to the most recently
\* used end; a miss adds an entry there, and drops the least recently used
\* entry when the cache is full.
cache_after(c, desc1, desc2) ==
    LET key == make_key(desc1, desc2)
    IN  IF key \in CacheKeys(c)
        THEN SelectSeq(c, LAMBDA e : e.key # key) \o << CacheEntry(c, key) >>
        ELSE LET e == [ key |-> key, args |-> << desc1, desc2 >>,
                        result |-> Ratio[desc1, desc2] ]
             IN  IF Len(c) >= MAXSIZE THEN Append(Tail(c), e) ELSE Append(c, e)

(***************************************************************************)
(* Product                                                                 *)
(***************************************************************************)

\* Product(description=product[0], price=product[1])
Product(row) == [ description |-> row[1], price |-> row[2] ]

\* Product.__eq__ raises AttributeError when a description has no lower().
eq_raises(self, product) ==
    self.description.type # "str" \/ product.description.type # "str"

\* The == of a NamedTuple that does not override it: both fields are equal.
Product_eq_tuple(c, self, product) == self = product

\* Product.__eq__ with its comparison turned around.
Product_eq_inverted(c, self, product) ==
    calc_description_equivalence_ratio(
        c, lower(self.description.chars), lower(product.description.chars))
            <= MIN_RATIO_EQUIVALENCE

\* Product.__eq__(self, product) with the cache being c.
Product_eq(c, self, product) ==
    calc_description_equivalence_ratio(
        c, lower(self.description.chars), lower(product.description.chars))
            >= MIN_RATIO_EQUIVALENCE


(***************************************************************************)
(* Migrate                                                                 *)
(***************************************************************************)

\* An output database nothing was called on yet.
NewOutput == [ calls |-> << >>, sheet |-> << >>, saved |-> FALSE, closed |-> FALSE ]

NoResult == [ recorded |-> FALSE, sheet |-> << >>, error |-> "" ]

Init ==
    /\ db1 = NoDb
    /\ db2 = NoDb
    /\ pc = "idle"
    /\ products_from_db1 = << >>
    /\ products_from_db2 = << >>
    /\ pos = 0
    /\ reads = << 0, 0 >>
    /\ last_recently_migrated_products = << >>
    /\ index_db1 = 0
    /\ index_db2 = 0
    /\ output = NewOutput
    /\ error = ""
    /\ cache = << >>
    /\ hits = 0
    /\ misses = 0
    /\ runs = 0
    /\ first = NoResult

\* Migrate.set_db1, called before the first run.
set_db1(db) ==
    /\ pc = "idle"
    /\ db1 = NoDb
    /\ db1' = db
    /\ UNCHANGED << db2, pc, products_from_db1, products_from_db2, pos, reads,
                    last_recently_migrated_products, index_db1, index_db2, output, error,
                    cache, hits, misses, runs, first >>

\* Migrate.set_db2, called before the first run.
set_db2(db) ==
    /\ pc = "idle"
    /\ db2 = NoDb
    /\ db2' = db
    /\ UNCHANGED << db1, pc, products_from_db1, products_from_db2, pos, reads,
                    last_recently_migrated_products, index_db1, index_db2, output, error,
                    cache, hits, misses, runs, first >>

\* A run that opens the output database without listing db2.
next_pc_skipping_db2(at) ==
    IF at = "read_db1" THEN "enter"
    ELSE IF at = "read_db2" THEN "enter"
    ELSE IF at = "enter" THEN "match"
    ELSE IF at = "match" THEN "exit"
    ELSE "returned"

\* The statements of Migrate.run in the order they run when nothing raises.
next_pc(at) ==
    IF at = "read_db1" THEN "read_db2"
    ELSE IF at = "read_db2" THEN "enter"
    ELSE IF at = "enter" THEN "match"
    ELSE IF at = "match" THEN "exit"
    ELSE "returned"

\* The exceptions of the output database: a writerow or a save that failed.
OutputErrors == { "WriteError", "SaveError" }

\* Migrate.run is called, with an output database of its own: on a Migrate
\* object that was not run yet, or again once the call before has ended,
\* unless the output database failed.  The caller keeps what the first call
\* wrote and raised.
run ==
    /\ pc \in { "idle", "returned", "raised" }
    /\ error \notin OutputErrors
    /\ runs < MaxRuns
    /\ runs' = runs + 1
    /\ first' = IF runs = 1
                THEN [ recorded |-> TRUE, sheet |-> output.sheet, error |-> error ]
                ELSE first
    /\ pc' = "read_db1"
    /\ products_from_db1' = << >>
    /\ products_from_db2' = << >>
    /\ pos' = 0
    /\ reads' = << 0, 0 >>
    /\ index_db1' = 0
    /\ index_db2' = 0
    /\ output' = NewOutput
    /\ error' = ""
    /\ UNCHANGED << db1, db2, last_recently_migrated_products, cache, hits, misses >>

\* next() on the generator _iter_products_from_db(db) that has consumed pos
\* rows of db.read(): the next Product, the end of the rows, or the
\* IndexError of product[0] or product[1] on a row that is too short.
next_product(rows, n) ==
    IF n >= Len(rows)
    THEN [ kind |-> "StopIteration", product |-> [ description |-> None, price |-> None ] ]
    ELSE IF Len(rows[n + 1]) < 2
    THEN [ kind |-> "IndexError", product |-> [ description |-> None, price |-> None ] ]
    ELSE [ kind |-> "yield", product |-> Product(rows[n + 1]) ]

\* list(self._iter_products_from_db(self.db1)), one row a step.  A db1 that
\* was never set is None, and None.read() raises.
iter_products_from_db1 ==
    /\ pc = "read_db1"
    /\ IF ~db1.set
       THEN /\ error' = "AttributeError"
            /\ pc' = "raised"
            /\ UNCHANGED << products_from_db1, pos, reads >>
       ELSE LET n == next_product(db1.rows, pos)
            IN  /\ reads' = IF pos = 0 THEN << reads[1] + 1, reads[2] >> ELSE reads
                /\ products_from_db1' =
                       IF n.kind = "yield" THEN Append(products_from_db1, n.product)
                       ELSE products_from_db1
                /\ pos' = IF n.kind = "yield" THEN pos + 1
                          ELSE IF n.kind = "StopIteration" THEN 0 ELSE pos
                /\ error' = IF n.kind = "IndexError" THEN "IndexError" ELSE error
                /\ pc' = IF n.kind = "yield" THEN pc
                         ELSE IF n.kind = "StopIteration" THEN next_pc(pc)
                         ELSE "raised"
    /\ UNCHANGED << db1, db2, products_from_db2, last_recently_migrated_products,
                    index_db1, index_db2, output, cache, hits, misses, runs, first >>

\* list(self._iter_products_from_db(self.db2)), one row a step.
iter_products_from_db2 ==
    /\ pc = "read_db2"
    /\ IF ~db2.set
       THEN /\ error' = "AttributeError"
            /\ pc' = "raised"
            /\ UNCHANGED << products_from_db2, pos, reads >>
       ELSE LET n == next_product(db2.rows, pos)
            IN  /\ reads' = IF pos = 0 THEN << reads[1], reads[2] + 1 >> ELSE reads
                /\ products_from_db2' =
                       IF n.kind = "yield" THEN Append(products_from_db2, n.product)
                       ELSE products_from_db2
                /\ pos' = IF n.kind = "yield" THEN pos + 1
                          ELSE IF n.kind = "StopIteration" THEN 0 ELSE pos
                /\ error' = IF n.kind = "IndexError" THEN "IndexError" ELSE error
                /\ pc' = IF n.kind = "yield" THEN pc
                         ELSE IF n.kind = "StopIteration" THEN next_pc(pc)
                         ELSE "raised"
    /\ UNCHANGED << db1, db2, products_from_db1, last_recently_migrated_products,
                    index_db1, index_db2, output, cache, hits, misses, runs, first >>

\* A list of migrated descriptions that outlives the call of run.
StaleList == last_recently_migrated_products

\* last_recently_migrated_products = []
EmptyList == << >>

\* The loops of run have a body to run: both lists hold a Product.
HasPairs == products_from_db1 # << >> /\ products_from_db2 # << >>

\* last_recently_migrated_products = [], then `with output_db as output`:
\* XlsxWriterDB.__enter__ makes the workbook and its sheet.
enter ==
    /\ pc = "enter"
    /\ last_recently_migrated_products' = EmptyList
    /\ output' = [ output EXCEPT !.calls = Append(@, "__enter__"), !.sheet = << >> ]
    /\ pc' = IF HasPairs THEN next_pc(pc) ELSE next_pc(next_pc(pc))
    /\ index_db1' = IF HasPairs THEN 1 ELSE Len(products_from_db1) + 1
    /\ index_db2' = IF HasPairs THEN 1 ELSE 0
    /\ UNCHANGED << db1, db2, products_from_db1, products_from_db2, pos, reads,
                    error, cache, hits, misses, runs, first >>

\* The loops nested the other way round: db2 outside, db1 inside.
advance_db2_outside(a, b) ==
    IF a < Len(products_from_db1) THEN << a + 1, b >>
    ELSE IF b < Len(products_from_db2) THEN << 1, b + 1 >>
    ELSE << Len(products_from_db1) + 1, 0 >>

\* The pair the nested for loops visit after the pair (a, b): the next
\* Product of db2, then the next Product of db1 with db2 from its start.
advance(a, b) ==
    IF b < Len(products_from_db2) THEN << a, b + 1 >>
    ELSE IF a < Len(products_from_db1) THEN << a + 1, 1 >>
    ELSE << Len(products_from_db1) + 1, 0 >>

\* A run that never looks a description up in the list.
never_migrated(description) == FALSE

\* product_from_db1.description in last_recently_migrated_products
already_migrated(description) ==
    \E n \in 1..Len(last_recently_migrated_products) :
        last_recently_migrated_products[n] = description

\* A row that takes the price of db1.
row_of_db1_price(product_from_db1, product_from_db2) ==
    << product_from_db1.description, product_from_db1.price >>

\* The row run writes for a pair of equivalent Products.
row_of(product_from_db1, product_from_db2) ==
    << product_from_db1.description, product_from_db2.price >>

\* An output database used without the with statement: nothing runs
\* between the exception and the caller.
raise_unmanaged == "raised"

\* Where run goes on when the body of the with statement raises: the
\* context manager's __exit__ is called before the exception propagates.
raise_in_with == "exit"

\* The body of the inner loop for the pair at (index_db1, index_db2): the comparison, the check
\* of the list of migrated descriptions, writerow (which the output database
\* may fail) and the append to the list.
compare ==
    /\ pc = "match"
    /\ LET p == products_from_db1[index_db1]
           s == products_from_db2[index_db2]
           to == advance(index_db1, index_db2)
       IN  IF eq_raises(p, s)
           THEN /\ error' = "AttributeError"
                /\ pc' = raise_in_with
                /\ UNCHANGED << index_db1, index_db2, output, last_recently_migrated_products,
                                cache, hits, misses >>
           ELSE LET d1 == lower(p.description.chars)
                    d2 == lower(s.description.chars)
                    hit == make_key(d1, d2) \in CacheKeys(cache)
                    writes == Product_eq(cache, p, s) /\ ~already_migrated(p.description)
                IN  /\ cache' = cache_after(cache, d1, d2)
                    /\ hits' = IF hit THEN hits + 1 ELSE hits
                    /\ misses' = IF hit THEN misses ELSE misses + 1
                    /\ \E ok \in (IF writes THEN BOOLEAN ELSE { TRUE }) :
                        IF writes /\ ~ok
                        THEN /\ output' = [ output EXCEPT !.calls = Append(@, "writerow") ]
                             /\ error' = "WriteError"
                             /\ pc' = raise_in_with
                             /\ UNCHANGED << index_db1, index_db2, last_recently_migrated_products >>
                        ELSE /\ output' =
                                   IF writes
                                   THEN [ output EXCEPT
                                            !.calls = Append(@, "writerow"),
                                            !.sheet = Append(@, row_of(p, s)) ]
                                   ELSE output
                             /\ last_recently_migrated_products' =
                                   IF writes
                                   THEN Append(last_recently_migrated_products,
                                               p.description)
                                   ELSE last_recently_migrated_products
                             /\ index_db1' = to[1]
                             /\ index_db2' = to[2]
                             /\ pc' = IF to[2] = 0 THEN next_pc(pc) ELSE pc
                             /\ error' = error
    /\ UNCHANGED << db1, db2, products_from_db1, products_from_db2, pos, reads,
                    runs, first >>

\* XlsxWriterDB.__exit__: workbook.save, which may fail, then workbook.close.
\* It returns None, so an exception of the with body goes on propagating.
exit ==
    /\ pc = "exit"
    /\ \E saved \in BOOLEAN :
        /\ output' = [ output EXCEPT !.calls = Append(@, "__exit__"),
                                     !.saved = saved, !.closed = saved ]
        /\ error' = IF saved THEN error ELSE "SaveError"
        /\ pc' = IF saved /\ error = "" THEN next_pc(pc) ELSE "raised"
    /\ UNCHANGED << db1, db2, products_from_db1, products_from_db2, pos, reads,
                    last_recently_migrated_products, index_db1, index_db2, cache, hits, misses,
                    runs, first >>

Next ==
    \/ \E db \in Sources1 : set_db1(db)
    \/ \E db \in Sources2 : set_db2(db)
    \/ run
    \/ iter_products_from_db1
    \/ iter_products_from_db2
    \/ enter
    \/ compare
    \/ exit

Spec == Init /\ [][Next]_vars

-----------------------------------------------------------------------------
\* What the properties below speak of.

\* The descriptions of two Products score at least MIN_RATIO_EQUIVALENCE.
Equivalent(p, s) ==
    /\ p.description.type = "str"
    /\ s.description.type = "str"
    /\ Ratio[lower(p.description.chars), lower(s.description.chars)]
           >= MIN_RATIO_EQUIVALENCE

\* The places in db2 of the Products equivalent to p.
MatchesOf(p) ==
    { n \in 1..Len(products_from_db2) : Equivalent(p, products_from_db2[n]) }

\* The first Product of db2, in the order of db2, equivalent to p.
FirstMatch(p) == CHOOSE n \in MatchesOf(p) : \A m \in MatchesOf(p) : n <= m

\* The rows of the sheet whose description is d.
RowsOf(d) == { k \in 1..Len(output.sheet) : output.sheet[k][1] = d }

\* The first place of the description d in the list of db1.
FirstIndex(d) ==
    CHOOSE n \in 1..Len(products_from_db1) :
        /\ products_from_db1[n].description = d
        /\ \A m \in 1..(n - 1) : products_from_db1[m].description # d

\* The output database was opened and both loops ran to their end.
LoopDone == output.calls # << >> /\ index_db1 > Len(products_from_db1)

\* The call of run has ended.
Ended == pc \in { "returned", "raised" }

\* C1: within one run the sheet never holds two rows with the same
\* description: at most one row is written per distinct description of db1,
\* however often the description occurs in db1 and however many Products of
\* db2 it is equivalent to.
C1_OneRowPerDescription ==
    \A k \in 1..Len(output.sheet) : \A l \in 1..Len(output.sheet) :
        output.sheet[k][1] = output.sheet[l][1] => k = l

\* A run has ended in which a description that occurs twice in db1 and is
\* equivalent to two Products of db2 has its row.
C1_Witness ==
    /\ pc = "returned"
    /\ \E a \in 1..Len(products_from_db1) : \E b \in 1..Len(products_from_db1) :
        /\ a < b
        /\ products_from_db1[a].description = products_from_db1[b].description
        /\ Cardinality(MatchesOf(products_from_db1[a])) >= 2
        /\ RowsOf(products_from_db1[a].description) # { }

\* C2: first match wins.  When the loops have run to their end, every
\* Product p of db1 that is equivalent to a Product of db2 and whose
\* description no earlier Product of db1 has, has exactly one row, and the
\* row is (p.description, s.price) for the first Product s of db2, in the
\* order of db2, that is equivalent to p; later or better scoring Products
\* of db2 do not change it.
C2_FirstMatchWins ==
    LoopDone =>
        \A n \in 1..Len(products_from_db1) :
            LET p == products_from_db1[n]
            IN  ( /\ MatchesOf(p) # { }
                  /\ \A m \in 1..(n - 1) :
                        products_from_db1[m].description # p.description )
                => /\ Cardinality(RowsOf(p.description)) = 1
                   /\ \A k \in RowsOf(p.description) :
                        output.sheet[k] =
                            << p.description,
                               products_from_db2[FirstMatch(p)].price >>

\* A run has ended in which a Product of db1 has two equivalent Products in
\* db2, the later one scoring higher and having another price, and the row
\* carries the price of the earlier one.
C2_Witness ==
    /\ pc = "returned"
    /\ \E n \in 1..Len(products_from_db1) :
        LET p == products_from_db1[n]
        IN  \E a \in MatchesOf(p) : \E b \in MatchesOf(p) :
                /\ a < b
                /\ a = FirstMatch(p)
                /\ Ratio[lower(p.description.chars),
                         lower(products_from_db2[b].description.chars)]
                     > Ratio[lower(p.description.chars),
                             lower(products_from_db2[a].description.chars)]
                /\ products_from_db2[a].price # products_from_db2[b].price
                /\ \E k \in RowsOf(p.description) :
                       output.sheet[k][2] = products_from_db2[a].price

\* C3: the rows of the sheet are in the order of db1: every row carries a
\* description of db1, and of two rows the earlier one carries the
\* description that comes first in db1, whatever the order in which db2
\* lists the Products they were matched with.
C3_PrimaryOrder ==
    /\ \A k \in 1..Len(output.sheet) :
        \E n \in 1..Len(products_from_db1) :
            products_from_db1[n].description = output.sheet[k][1]
    /\ \A k \in 1..Len(output.sheet) : \A l \in 1..Len(output.sheet) :
        k < l => FirstIndex(output.sheet[k][1]) < FirstIndex(output.sheet[l][1])

\* A run has ended with two rows of which the first was matched with a
\* Product that db2 lists after the one the second was matched with.
C3_Witness ==
    /\ pc = "returned"
    /\ Len(output.sheet) >= 2
    /\ FirstMatch(products_from_db1[FirstIndex(output.sheet[1][1])])
         > FirstMatch(products_from_db1[FirstIndex(output.sheet[2][1])])

\* A row of a database that product[0] or product[1] cannot index.
Short(row) == Len(row) < 2

\* A row of a database whose description has no attribute lower.
NoText(row) == Len(row) >= 1 /\ row[1].type # "str"

\* A row of a database whose price is not a number.
NonNumericPrice(row) == Len(row) >= 2 /\ row[2].type # "int"

\* What, in the databases, an exception of a run that is not one of the
\* output database comes from: a database that was never set, a row that
\* is too short, or a description that is not a text.
InputFault ==
    IF error = "IndexError"
    THEN \/ \E n \in 1..Len(db1.rows) : Short(db1.rows[n])
         \/ \E n \in 1..Len(db2.rows) : Short(db2.rows[n])
    ELSE /\ error = "AttributeError"
         /\ \/ ~db1.set
            \/ ~db2.set
            \/ \E n \in 1..Len(db1.rows) : NoText(db1.rows[n])
            \/ \E n \in 1..Len(db2.rows) : NoText(db2.rows[n])

\* C4: unmatched Products of db1 are dropped silently.  No row is ever
\* written for a description that no Product of db2 is equivalent to (so a
\* run in which nothing matches writes no row); being unmatched does not
\* stop the loops, which give every matched Product of db1 its row; and an
\* error a run raises, unless the output database raised it, comes from a
\* database that was not set, a short row or a description that is no text,
\* never from a Product without a match.
C4_UnmatchedDropped ==
    /\ \A k \in 1..Len(output.sheet) :
        \E n \in 1..Len(products_from_db2) :
            /\ output.sheet[k][1].type = "str"
            /\ products_from_db2[n].description.type = "str"
            /\ Ratio[lower(output.sheet[k][1].chars),
                     lower(products_from_db2[n].description.chars)]
                   >= MIN_RATIO_EQUIVALENCE
    /\ LoopDone =>
        \A n \in 1..Len(products_from_db1) :
            MatchesOf(products_from_db1[n]) # { }
                => RowsOf(products_from_db1[n].description) # { }
    /\ (error # "" /\ error \notin OutputErrors) => InputFault

\* A run has returned without an error although db2 holds Products and a
\* Product of db1 is equivalent to none of them; another Product of db1
\* has its row.
C4_Witness ==
    /\ pc = "returned"
    /\ error = ""
    /\ products_from_db2 # << >>
    /\ output.sheet # << >>
    /\ \E n \in 1..Len(products_from_db1) :
        /\ MatchesOf(products_from_db1[n]) = { }
        /\ RowsOf(products_from_db1[n].description) = { }

\* C5: the calls the output database receives in one run are __enter__
\* first and only first, then the calls of writerow, then __exit__, once
\* and last: no call follows __exit__, and a run that opened the output
\* database has called __exit__ when it ends, whether it returns or raises.
C5_SinkLifecycle ==
    /\ \A n \in 1..Len(output.calls) :
        /\ output.calls[n] = "__enter__" <=> n = 1
        /\ output.calls[n] = "__exit__" => n = Len(output.calls)
    /\ (Ended /\ output.calls # << >>)
        => output.calls[Len(output.calls)] = "__exit__"

\* A run has raised out of the body of the loops after it wrote a row, and
\* the output database was closed.
C5_Witness ==
    /\ pc = "raised"
    /\ error \in { "AttributeError", "WriteError" }
    /\ Len(output.calls) >= 3
    /\ output.calls[Len(output.calls)] = "__exit__"

\* C6: a malformed row, one with fewer than two fields or one whose price
\* is not a number, is fatal as soon as it is read: no list of Products
\* ever reaches beyond such a row, and no row of the sheet carries a price
\* that is not a number.
C6_MalformedRowIsFatal ==
    /\ \A n \in 1..Len(db1.rows) :
        (Short(db1.rows[n]) \/ NonNumericPrice(db1.rows[n]))
            => Len(products_from_db1) < n
    /\ \A n \in 1..Len(db2.rows) :
        (Short(db2.rows[n]) \/ NonNumericPrice(db2.rows[n]))
            => Len(products_from_db2) < n
    /\ \A k \in 1..Len(output.sheet) : output.sheet[k][2].type = "int"

\* The prices a Product is given in place of its own.
OtherPrices == { Str(not_a_price), None }

\* C7: whether two Products are equal depends on their descriptions only.
\* For the two Products a run is comparing, with every price put in place
\* of either price, __eq__ answers the same, namely whether the score of
\* the lower-cased descriptions is at least MIN_RATIO_EQUIVALENCE; and two
\* Products with one description are equal whatever their prices.
C7_EquivalenceIgnoresPrice ==
    (pc = "match" /\ ~eq_raises(products_from_db1[index_db1],
                                products_from_db2[index_db2]))
    => LET p == products_from_db1[index_db1]
           s == products_from_db2[index_db2]
       IN  /\ Product_eq(cache, p, s) = Equivalent(p, s)
           /\ \A q1 \in OtherPrices : \A q2 \in OtherPrices :
                /\ Product_eq(cache, [ p EXCEPT !.price = q1 ],
                                     [ s EXCEPT !.price = q2 ])
                       = Product_eq(cache, p, s)
                /\ Product_eq(cache, [ p EXCEPT !.price = q1 ],
                                     [ p EXCEPT !.price = q2 ])
                /\ Product_eq(cache, [ s EXCEPT !.price = q1 ],
                                     [ s EXCEPT !.price = q2 ])

\* A run is comparing two Products that are equal although their prices
\* and the spelling of their descriptions differ.
C7_Witness ==
    /\ pc = "match"
    /\ ~eq_raises(products_from_db1[index_db1], products_from_db2[index_db2])
    /\ Product_eq(cache, products_from_db1[index_db1], products_from_db2[index_db2])
    /\ products_from_db1[index_db1].price # products_from_db2[index_db2].price
    /\ products_from_db1[index_db1].description
           # products_from_db2[index_db2].description

\* C8: a second run of the same Migrate object over the same databases,
\* with an output database of its own, ends as the first did and leaves the
\* same rows in the same order; what the first run left in the cache, or
\* what was evicted from it, does not change a row.  (A run the output
\* database failed is not run again.)
C8_Idempotent ==
    (runs >= 2 /\ Ended /\ error \notin OutputErrors)
        => /\ first.recorded
           /\ output.sheet = first.sheet
           /\ error = first.error

\* A second run has returned with rows; it found scores in the cache, and
\* the cache was full and had evicted entries.
C8_Witness ==
    /\ runs = 2
    /\ pc = "returned"
    /\ Len(output.sheet) >= 2
    /\ hits > 0
    /\ Len(cache) = MAXSIZE
    /\ misses > MAXSIZE

\* The arguments the entries of the cache were computed for.
CacheArgs(c) == { c[n].args : n \in 1..Len(c) }

\* The arguments of the call a run at the comparison is about to make.
CallArgs ==
    << lower(products_from_db1[index_db1].description.chars),
       lower(products_from_db2[index_db2].description.chars) >>

\* A step in which calc_description_equivalence_ratio is called.
Calls == pc = "match" /\ hits' + misses' = hits + misses + 1

\* The cache never holds more than MAXSIZE entries or two entries for the
\* same arguments, and each entry holds the score of its arguments.
CacheBounded ==
    /\ Len(cache) <= MAXSIZE
    /\ Cardinality(CacheArgs(cache)) = Len(cache)
    /\ \A n \in 1..Len(cache) :
        cache[n].result = Ratio[cache[n].args[1], cache[n].args[2]]

\* A call that misses computes the score and adds its entry as the most
\* recently used one, evicting the least recently used entry of a full cache.
MissStep ==
    /\ misses' = misses + 1
    /\ hits' = hits
    /\ LET e == cache'[Len(cache')]
       IN  /\ e.args = CallArgs
           /\ cache' = Append(IF Len(cache) < MAXSIZE THEN cache ELSE Tail(cache), e)

\* The entries of the cache c but the one for the arguments args, in their order.
Others(c, args) == SelectSeq(c, LAMBDA e : e.args # args)

\* A call that hits adds no entry and makes its entry the most recently
\* used one; the other entries keep their order.
HitStep ==
    /\ hits' = hits + 1
    /\ misses' = misses
    /\ Len(cache') = Len(cache)
    /\ cache'[Len(cache')].args = CallArgs
    /\ cache'[Len(cache')] \in { cache[n] : n \in 1..Len(cache) }
    /\ Others(cache', CallArgs) = Others(cache, CallArgs)

\* C9 as stated: the cache is keyed by the unordered pair: a call for
\* (b, a) while the entry of (a, b) is in the cache is answered from the
\* cache and adds no entry; the cache holds at most MAXSIZE entries.
C9_UnorderedKey ==
    /\ [](Len(cache) <= MAXSIZE)
    /\ [][ (Calls /\ << CallArgs[2], CallArgs[1] >> \in CacheArgs(cache))
             => (hits' = hits + 1 /\ Len(cache') = Len(cache)) ]_vars

\* C9, amended: the cache is keyed by the ordered pair of the arguments.  A
\* call is answered from the cache exactly when an entry for the same
\* arguments in the same order is in it, so a call for (b, a) after one for
\* (a, b) computes the score again and adds a second entry; the cache never
\* holds more than MAXSIZE entries and evicts the least recently used entry
\* when a new one is added to a full cache.
C9_OrderedKey ==
    /\ []CacheBounded
    /\ [][ Calls => IF CallArgs \in CacheArgs(cache) THEN HitStep ELSE MissStep ]_vars

\* The cache is full, has evicted entries, has answered calls, and holds
\* an entry for (a, b) and another for (b, a).
C9_Witness ==
    /\ Len(cache) = MAXSIZE
    /\ misses > MAXSIZE
    /\ hits > 0
    /\ \E n \in 1..Len(cache) : \E m \in 1..Len(cache) :
        /\ cache[n].args[1] # cache[n].args[2]
        /\ cache[m].args = << cache[n].args[2], cache[n].args[1] >>

\* All rows of both databases were read into the lists of Products, by one
\* call of read() each.
AllRead ==
    /\ db1.set
    /\ db2.set
    /\ reads = << 1, 1 >>
    /\ Len(products_from_db1) = Len(db1.rows)
    /\ Len(products_from_db2) = Len(db2.rows)
    /\ \A n \in 1..Len(db1.rows) :
        ~Short(db1.rows[n]) /\ products_from_db1[n] = Product(db1.rows[n])
    /\ \A n \in 1..Len(db2.rows) :
        ~Short(db2.rows[n]) /\ products_from_db2[n] = Product(db2.rows[n])

\* C10: both databases are read to their end, db1 and then db2, each
\* once, before the output database is opened and before the first
\* comparison: whenever the output database has received a call, or a
\* score is looked up or computed, all rows are in the lists; db2 is
\* consumed only when db1 is complete; and a run that fails while reading
\* has not opened the output database.
C10_SourcesReadFirst ==
    /\ []( (output.calls # << >> \/ pc \in { "enter", "match", "exit" }) => AllRead )
    /\ []( (pc = "read_db2" \/ reads[2] > 0)
             => /\ reads[1] = 1
                /\ reads[2] <= 1
                /\ Len(products_from_db1) = Len(db1.rows) )
    /\ []( (pc = "raised" /\ ~AllRead) => output.calls = << >> )
    /\ [][ (hits' + misses' # hits + misses \/ output'.calls # output.calls)
             => (AllRead \/ output'.calls = << >>) ]_vars

\* A run has raised on a short row of db2 after it read all of db1 and
\* some rows of db2, and the output database was never opened.
C10_Witness ==
    /\ pc = "raised"
    /\ error = "IndexError"
    /\ reads = << 1, 1 >>
    /\ products_from_db1 # << >>
    /\ products_from_db2 # << >>
    /\ output.calls = << >>

=============================================================================
